---------------------------- MODULE Spec2Model ----------------------------
(***************************************************************************)
(* Model of the Westie Radio history sync                                  *)
(* (src/src/spotify_playlist_generator/sync.py and sheet_logging.py).      *)
(*                                                                         *)
(* Three specifications share the variables below:                         *)
(*   SpecDiff   - process_new_songs applied to bounded inputs;             *)
(*   Spec       - main / process_file, one statement group per action;     *)
(*   SpecUpsert - the Processed upsert of sync.log_to_sheets and of        *)
(*                SpreadsheetLogger.log_spreadsheet on bounded sheets.     *)
(*                                                                         *)
(* Python values: a list is a sequence, a tuple is a tuple, None is the    *)
(* string None below (no marker, id or cell of the model equals it).       *)
(***************************************************************************)
EXTENDS Integers, Sequences, FiniteSets, TLC

VARIABLES
    pc,                 \* position in main / process_file / the harness
    songs,              \* process_file: parsed records of the current file
    last_extvdj_line,   \* process_file: cursor read from processed_map
    new_songs,          \* process_file: result of process_new_songs
    filename,           \* process_file: file["name"]
    processed_map,      \* main: result of load_processed_map
    processed_sheet,    \* the data rows of the Processed tab (A2:C)
    found_uris,         \* process_file local
    matched_songs,      \* process_file local
    unfound,            \* process_file local
    playlist_id,        \* process_file local
    exc,                \* TRUE while an exception propagates
    calls,              \* calls made to the external services, in order
    faults,             \* number of caught external failures so far
    impl,               \* which logging implementation is in use
    m3u_files,          \* main: the files still to be processed
    steps,              \* number of top-level operations performed
    folder_id,          \* main: config.VDJ_HISTORY_FOLDER_ID
    tabs,               \* titles of the tabs of the logging spreadsheet
    retries             \* wait_for_spreadsheet_ready: its retries argument

vars == <<pc, songs, last_extvdj_line, new_songs, filename, processed_map,
          processed_sheet, found_uris, matched_songs, unfound, playlist_id,
          exc, calls, faults, impl, m3u_files, steps, folder_id, tabs,
          retries>>

----------------------------------------------------------------------------
(* Bounds *)

MaxLen == 3

----------------------------------------------------------------------------
(* Python values *)

None == "None"

Truthy(v) == v /= None /\ v /= ""

\* list.index(x): the 1-based position of the first element equal to x,
\* 0 standing for ValueError.
RECURSIVE IndexFrom(_, _, _)
IndexFrom(list, x, i) ==
    IF i > Len(list) THEN 0
    ELSE IF list[i] = x THEN i
    ELSE IndexFrom(list, x, i + 1)

Index(list, x) == IndexFrom(list, x, 1)

\* list[n:] with n a 0-based Python index, 0 <= n
SliceFrom(list, n) == SubSeq(list, n + 1, Len(list))

----------------------------------------------------------------------------
(* Track records (artist, title, extvdj_line) for the diff *)

DiffTracks ==
    { <<"A", "T1", "m1">>, <<"B", "T2", "m2">>,
      <<"C", "T3", "m1">>, <<"D", "T4", "">> }

DiffCursors == { None, "", "m1", "m2", "zz" }

SeqsUpTo(S, n) == UNION { [1..m -> S] : m \in 0..n }

----------------------------------------------------------------------------
(* process_new_songs *)

Markers(list) == [i \in 1..Len(list) |-> list[i][3]]

\* Mutants of process_new_songs, each a plausible slip in the code.
process_new_songs_last_match(list, last) ==
    IF Truthy(last)
    THEN LET ms == Markers(list)
             hits == { i \in 1..Len(list) : ms[i] = last }
         IN IF hits = {} THEN list
            ELSE SliceFrom(list, CHOOSE i \in hits : \A j \in hits : j <= i)
    ELSE list

process_new_songs_absent_is_done(list, last) ==
    LET last_index == Index(Markers(list), last)
    IN IF last_index /= 0 THEN SliceFrom(list, last_index) ELSE
       IF Truthy(last) THEN list ELSE <<>>

process_new_songs_unmatched_is_done(list, last) ==
    IF Truthy(last)
    THEN LET last_index == Index(Markers(list), last)
         IN IF last_index = 0 THEN <<>> ELSE SliceFrom(list, last_index)
    ELSE list

process_new_songs_off_by_one(list, last) ==
    IF Truthy(last)
    THEN LET last_index == Index(Markers(list), last)
         IN IF last_index = 0 THEN list ELSE SliceFrom(list, last_index - 1)
    ELSE list

process_new_songs_prefix(list, last) ==
    IF Truthy(last)
    THEN LET last_index == Index(Markers(list), last)
         IN IF last_index = 0 THEN list ELSE SubSeq(list, 1, last_index)
    ELSE list

\* sync.py 258-270.  last_index below is Python's last_index + 1.
process_new_songs(list, last) ==
    IF Truthy(last)
    THEN LET last_index == Index(Markers(list), last)
         IN IF last_index = 0
            THEN list                       \* ValueError: process full file
            ELSE SliceFrom(list, last_index)
    ELSE list

----------------------------------------------------------------------------
(* SpecDiff: process_new_songs on bounded inputs *)

InitDiff ==
    /\ pc = "diff_call"
    /\ songs \in SeqsUpTo(DiffTracks, MaxLen)
    /\ last_extvdj_line \in DiffCursors
    /\ new_songs = <<>>
    /\ filename = None
    /\ processed_map = <<>>
    /\ processed_sheet = <<>>
    /\ found_uris = <<>>
    /\ matched_songs = <<>>
    /\ unfound = <<>>
    /\ playlist_id = None
    /\ exc = FALSE
    /\ calls = <<>>
    /\ faults = 0
    /\ impl = "sync"
    /\ m3u_files = <<>>
    /\ steps = 0
    /\ folder_id = None
    /\ tabs = {}
    /\ retries = 0

CallProcessNewSongs ==
    /\ pc = "diff_call"
    /\ new_songs' = process_new_songs(songs, last_extvdj_line)
    /\ pc' = "diff_done"
    /\ UNCHANGED <<songs, last_extvdj_line, filename, processed_map,
                   processed_sheet, found_uris, matched_songs, unfound,
                   playlist_id, exc, calls, faults,
                   impl, folder_id, tabs, retries, m3u_files, steps>>

NextDiff == CallProcessNewSongs

SpecDiff == InitDiff /\ [][NextDiff]_vars

\* Positions of songs whose marker is the cursor
Hits == { i \in 1..Len(songs) : songs[i][3] = last_extvdj_line }

FirstHit == CHOOSE i \in Hits : \A j \in Hits : i <= j

\* C1: for a non-empty cursor that is the marker of some record, the result
\* is the part of songs after the FIRST record carrying that marker.
C1_AfterFirstMatch ==
    (pc = "diff_done" /\ Truthy(last_extvdj_line) /\ Hits /= {})
        => new_songs = SubSeq(songs, FirstHit + 1, Len(songs))

\* a repeated marker: the anchor stays at the first occurrence
C1_Witness ==
    /\ pc = "diff_done"
    /\ Truthy(last_extvdj_line)
    /\ Cardinality(Hits) = 2
    /\ Len(new_songs) = Len(songs) - FirstHit
    /\ Len(new_songs) >= 1

\* C2: with an absent (None) or empty cursor the result is songs unchanged.
C2_AbsentCursorReturnsAll ==
    (pc = "diff_done" /\ last_extvdj_line \in {None, ""})
        => new_songs = songs

C2_Witness ==
    /\ pc = "diff_done"
    /\ last_extvdj_line = ""
    /\ Len(songs) = 2
    /\ songs[1][3] = ""
    /\ new_songs = songs

\* C3: with a non-empty cursor that is no record's marker the result is
\* songs unchanged (never shorter).
C3_UnmatchedCursorReturnsAll ==
    (pc = "diff_done" /\ Truthy(last_extvdj_line) /\ Hits = {})
        => new_songs = songs

C3_Witness ==
    /\ pc = "diff_done"
    /\ last_extvdj_line = "zz"
    /\ Len(songs) = MaxLen
    /\ new_songs = songs

\* C4 as stated: for every non-empty songs, a cursor equal to the marker of
\* the last record gives the empty result.
C4_Original ==
    (pc = "diff_done" /\ songs /= <<>>
        /\ last_extvdj_line = songs[Len(songs)][3])
        => new_songs = <<>>

\* C4 amended: a non-empty cursor equal to the marker of the last record,
\* which no earlier record carries, gives the empty result.
C4_CaughtUpIsEmpty ==
    (pc = "diff_done" /\ songs /= <<>> /\ Truthy(last_extvdj_line)
        /\ Hits = {Len(songs)})
        => new_songs = <<>>

C4_Witness ==
    /\ pc = "diff_done"
    /\ Len(songs) >= 2
    /\ Truthy(last_extvdj_line)
    /\ Hits = {Len(songs)}
    /\ new_songs = <<>>

\* C5: the result is always a contiguous suffix of songs (so an empty songs
\* gives an empty result).
C5_ResultIsSuffix ==
    pc = "diff_done"
        => \E n \in 0..Len(songs) : new_songs = SubSeq(songs, n + 1, Len(songs))

C5_Witness ==
    /\ pc = "diff_done"
    /\ Len(songs) = 3
    /\ Len(new_songs) = 1
    /\ new_songs[1] = songs[3]
    /\ songs[1] /= songs[3]

----------------------------------------------------------------------------
(* The Processed tab as the Sheets facade shows it.                        *)
(* processed_sheet is what read_values("Processed!A2:C") returns: one      *)
(* sequence of cells per sheet row from row 2 on, trailing empty cells     *)
(* dropped, a blank row read as the empty row, nothing after the last row  *)
(* that holds data.  Data row i is sheet row i + 1.                        *)

MaxRows == 2

\* file names are sequences of characters, as extract_date_from_filename
\* indexes them
F1 == <<"2", "0", "2", "4", "-", "0", "1", "-", "0", "2", ".", "m", "3", "u">>

F2 == <<"s", "e", "t", ".", "m", "3", "u">>

Filenames == { F1, F2 }

\* one recorded call: the operation, two arguments, and whether it succeeded
Ev(op, a, b, ok) == [op |-> op, a |-> a, b |-> b, ok |-> ok]

\* lexicographic order of the marker lines of the model
MarkerRank(m) ==
    CASE m = "m1" -> 1
      [] m = "m2" -> 2
      [] m = "m3" -> 3
      [] OTHER -> 0

RECURSIVE TrimRow(_)
TrimRow(row) ==
    IF row /= <<>> /\ row[Len(row)] = ""
    THEN TrimRow(SubSeq(row, 1, Len(row) - 1))
    ELSE row

\* write_values(sid, "Processed!A{r}:C{r}", [row]): the cells the row covers
\* are set, the other cells of the sheet row keep their value
\* (a None value leaves its cell alone as well)
WriteValues(sheet, r, row) ==
    LET old == sheet[r - 1]
        width == IF Len(old) > Len(row) THEN Len(old) ELSE Len(row)
        new == [c \in 1..width |->
                   IF c <= Len(row) /\ row[c] /= None THEN row[c]
                   ELSE IF c <= Len(old) THEN old[c] ELSE ""]
    IN [sheet EXCEPT ![r - 1] = TrimRow(new)]

\* append_values(sid, "Processed", [row]): the row goes below the last row
\* that holds data
AppendValues(sheet, row) ==
    Append(sheet, TrimRow([c \in 1..Len(row) |->
                              IF row[c] = None THEN "" ELSE row[c]]))

\* the sort key of a row for column_index = 2 (column C); rows whose cell is
\* empty sort below every other row
SortKey(row) == IF Len(row) >= 3 THEN MarkerRank(row[3]) ELSE 0

InsertDescending(sorted, row) ==
    LET above == { i \in 1..Len(sorted) : SortKey(sorted[i]) >= SortKey(row) }
        n == Cardinality(above)
    IN SubSeq(sorted, 1, n) \o <<row>> \o SubSeq(sorted, n + 1, Len(sorted))

RECURSIVE SortFrom(_, _, _)
SortFrom(sheet, i, sorted) ==
    IF i > Len(sheet) THEN sorted
    ELSE SortFrom(sheet, i + 1,
                  IF sheet[i] = <<>> THEN sorted
                  ELSE InsertDescending(sorted, sheet[i]))

\* sort_sheet(sid, "Processed", column_index=2, ascending=False, start_row=2):
\* a stable sort of the data rows; blank rows end up below the data
SortSheet(sheet) == SortFrom(sheet, 1, <<>>)

HasBlankRow(sheet) == \E i \in 1..Len(sheet) : sheet[i] = <<>>

\* load_processed_map: {row[0]: row[2] for row in rows if len(row) >= 3};
\* a later row of the same file name replaces an earlier one, None = no key
load_processed_map(sheet) ==
    [f \in Filenames |->
        LET rows == { i \in 1..Len(sheet) :
                        Len(sheet[i]) >= 3 /\ sheet[i][1] = f }
        IN IF rows = {} THEN None
           ELSE sheet[CHOOSE i \in rows : \A j \in rows : j <= i][3]]

----------------------------------------------------------------------------
(* The Processed upsert.  fail names the external call that raises:        *)
(* "read", "write" (write_values or append_values), "sort", or "none".     *)
(* The result is the new sheet, the calls made, and whether an exception   *)
(* leaves the function.                                                    *)

UpsertFails == { "none", "read", "write", "sort" }

Upserted(sheet, evs, raised) == [sheet |-> sheet, calls |-> evs, raised |-> raised]

\* [row[0] for row in all_rows if row]
FirstCellsOfNonBlank(sheet) ==
    LET keep == { i \in 1..Len(sheet) : sheet[i] /= <<>> }
        RECURSIVE Build(_)
        Build(i) == IF i > Len(sheet) THEN <<>>
                    ELSE IF i \in keep THEN <<sheet[i][1]>> \o Build(i + 1)
                    ELSE Build(i + 1)
    IN Build(1)

\* [row[0] for row in all_rows]; only evaluated when no row is blank
FirstCells(sheet) == [i \in 1..Len(sheet) |-> sheet[i][1]]

\* the sort issued before the write or append instead of after it
WriteOrAppendThenSort_sort_first(sheet, filenames, fname, updated_row, fail, read_ev, guarded) ==
    LET pos == Index(filenames, fname)
        row_index == pos + 1
        w_ok == fail /= "write"
        w_ev == IF pos /= 0
                THEN Ev("write_values", row_index, updated_row, w_ok)
                ELSE Ev("append_values", "Processed", updated_row, w_ok)
        s_ok == fail /= "sort"
        s_ev == Ev("sort_sheet", "Processed", <<2, FALSE, 2>>, s_ok)
        sorted == IF s_ok THEN SortSheet(sheet) ELSE sheet
        written == IF ~w_ok THEN sorted
                   ELSE IF pos /= 0 THEN WriteValues(sorted, row_index, updated_row)
                   ELSE AppendValues(sorted, updated_row)
    IN Upserted(written, <<read_ev, s_ev, w_ev>>, FALSE)

\* the write or append and the sort that end both implementations.
\* guarded: the calls sit in one try block (sync.py), so any failure ends
\* the block; otherwise (sheet_logging.py) a failing write_values leaves the
\* function, a failing append is caught by _append_values and the sort
\* still runs.
WriteOrAppendThenSort(sheet, filenames, fname, updated_row, fail, read_ev, guarded) ==
    LET pos == Index(filenames, fname)
        row_index == pos + 1
        w_ok == fail /= "write"
        w_ev == IF pos /= 0
                THEN Ev("write_values", row_index, updated_row, w_ok)
                ELSE Ev("append_values", "Processed", updated_row, w_ok)
        written == IF ~w_ok THEN sheet
                   ELSE IF pos /= 0 THEN WriteValues(sheet, row_index, updated_row)
                   ELSE AppendValues(sheet, updated_row)
        s_ok == fail /= "sort"
        \* <<column_index, ascending, start_row>>
        s_ev == Ev("sort_sheet", "Processed", <<2, FALSE, 2>>, s_ok)
    IN IF ~w_ok /\ guarded THEN Upserted(sheet, <<read_ev, w_ev>>, FALSE)
       ELSE IF ~w_ok /\ pos /= 0 THEN Upserted(sheet, <<read_ev, w_ev>>, TRUE)
       ELSE Upserted(IF s_ok THEN SortSheet(written) ELSE written,
                     <<read_ev, w_ev, s_ev>>, FALSE)

\* sync.py 222-255: one try block around read, write or append, and sort
sync_log_processed(sheet, fname, pid, new, last, fail) ==
    LET last_logged_extvdj_line == IF new /= <<>> THEN new[Len(new)][3] ELSE last
        updated_row == IF Truthy(pid)
                       THEN <<fname, pid, last_logged_extvdj_line>>
                       ELSE <<fname, last_logged_extvdj_line>>
        read_ev == Ev("read_values", "Processed", None, fail /= "read")
    IN IF fail = "read" THEN Upserted(sheet, <<read_ev>>, FALSE)
       ELSE IF HasBlankRow(sheet)
       THEN Upserted(sheet, <<read_ev>>, FALSE)     \* IndexError in row[0]
       ELSE WriteOrAppendThenSort(sheet, FirstCells(sheet), fname,
                                  updated_row, fail, read_ev, TRUE)

\* sheet_logging.py 177-217: read and write_values are not guarded, the
\* append is guarded by _append_values, the sort by its own try
logger_log_processed(sheet, fname, pid, new, last, fail) ==
    LET extvdj_line == IF new /= <<>> THEN new[Len(new)][3] ELSE last
        updated_row == <<fname, IF Truthy(pid) THEN pid ELSE "", extvdj_line>>
        read_ev == Ev("read_values", "Processed", None, fail /= "read")
    IN IF ~Truthy(extvdj_line) THEN Upserted(sheet, <<>>, FALSE)
       ELSE IF fail = "read" THEN Upserted(sheet, <<read_ev>>, TRUE)
       ELSE WriteOrAppendThenSort(sheet, FirstCellsOfNonBlank(sheet), fname,
                                  updated_row, fail, read_ev, FALSE)

----------------------------------------------------------------------------
(* SpecUpsert: log_to_sheets' Processed upsert, called repeatedly on a     *)
(* bounded Processed tab, by either implementation                         *)

MaxUpserts == 2

TA == <<"A", "T1", "m1">>

TB == <<"B", "T2", "m2">>

PlaylistIds == { "pl_old", "pl_new" }

SheetRows ==
    { <<>>, <<F1, "pl_old", "m1">>, <<F1, "m2">>, <<F2, "pl_old", "m3">> }

\* at most one row per file name, blank rows anywhere but at the end
ProcessedSheets ==
    { sh \in SeqsUpTo(SheetRows, MaxRows) :
        /\ sh /= <<>> => sh[Len(sh)] /= <<>>
        /\ \A i, j \in 1..Len(sh) :
              (i < j /\ sh[i] /= <<>> /\ sh[j] /= <<>>) => sh[i][1] /= sh[j][1] }

\* (new_songs, last_extvdj_line) pairs passed to log_to_sheets
UpsertCursors ==
    { <<(<<TA>>), None>>, <<(<<TA, TB>>), "m1">>, <<(<<>>), "m3">>,
      <<(<<>>), None>> }

InitUpsert ==
    /\ pc = "upsert_ready"
    /\ processed_sheet \in ProcessedSheets
    /\ impl \in { "sync", "sheet_logging" }
    /\ songs = <<>>
    /\ last_extvdj_line = None
    /\ new_songs = <<>>
    /\ filename = None
    /\ processed_map = <<>>
    /\ found_uris = <<>>
    /\ matched_songs = <<>>
    /\ unfound = <<>>
    /\ playlist_id = None
    /\ exc = FALSE
    /\ calls = <<>>
    /\ faults = 0
    /\ m3u_files = <<>>
    /\ steps = 0
    /\ folder_id = None
    /\ tabs = {}
    /\ retries = 0

UpsertWith(r, f, pid, cur) ==
    /\ processed_sheet' = r.sheet
    /\ calls' = r.calls
    /\ exc' = r.raised
    /\ filename' = f
    /\ playlist_id' = pid
    /\ new_songs' = cur[1]
    /\ last_extvdj_line' = cur[2]
    /\ steps' = steps + 1
    /\ pc' = "upsert_done"
    /\ UNCHANGED <<songs, processed_map, found_uris, matched_songs, unfound,
                   faults, impl, folder_id, tabs, retries, m3u_files>>

\* sync.log_to_sheets, lines 222-255
UpsertSync ==
    /\ pc \in { "upsert_ready", "upsert_done" }
    /\ impl = "sync"
    /\ steps < MaxUpserts
    /\ \E f \in Filenames, pid \in { None, "pl_new" }, cur \in UpsertCursors,
          fail \in UpsertFails :
          UpsertWith(sync_log_processed(processed_sheet, f, pid, cur[1],
                                        cur[2], fail), f, pid, cur)

\* SpreadsheetLogger.log_spreadsheet, lines 177-217, as called by
\* SpreadsheetLogger.log_to_sheets
UpsertLogger ==
    /\ pc \in { "upsert_ready", "upsert_done" }
    /\ impl = "sheet_logging"
    /\ steps < MaxUpserts
    /\ \E f \in Filenames, pid \in { None, "pl_new" }, cur \in UpsertCursors,
          fail \in UpsertFails :
          UpsertWith(logger_log_processed(processed_sheet, f, pid, cur[1],
                                          cur[2], fail), f, pid, cur)

NextUpsert == UpsertSync \/ UpsertLogger

SpecUpsert == InitUpsert /\ [][NextUpsert]_vars

\* data rows of a sheet whose first column is the file name f
Holders(sheet, f) ==
    { i \in 1..Len(sheet) : sheet[i] /= <<>> /\ sheet[i][1] = f }

CallsOf(evs, op) == { k \in 1..Len(evs) : evs[k].op = op }

AllOk(evs) == \A k \in 1..Len(evs) : evs[k].ok

\* C10: an upsert none of whose spreadsheet calls fails overwrites exactly
\* the sheet row that holds the file name and appends nothing, or, when no
\* row holds the file name, appends exactly one row and overwrites nothing;
\* this for every content of the sheet, blank rows included.
C10_UpsertInPlaceOrAppend ==
    [][ ( /\ steps' = steps + 1
          /\ pc' = "upsert_done"
          /\ AllOk(calls')
          /\ (new_songs' /= <<>> \/ Truthy(last_extvdj_line')) )
        => LET holders == Holders(processed_sheet, filename')
               writes == CallsOf(calls', "write_values")
               appends == CallsOf(calls', "append_values")
           IN IF holders /= {}
              THEN /\ appends = {}
                   /\ Cardinality(writes) = 1
                   /\ \A k \in writes : (calls'[k].a - 1) \in holders
              ELSE /\ writes = {}
                   /\ Cardinality(appends) = 1 ]_vars

----------------------------------------------------------------------------
(* Spec: main and process_file (sync.py)                                   *)

MaxSongs == 2

MaxFaults == 1

MainTracks == { TA, TB }

\* the track identifier the streaming service holds for (artist, title); a
\* lookup returns it, returns None, or raises
Catalog(artist, title) == IF artist = "A" THEN "u1" ELSE "u2"

\* the lists get_all_m3u_files can return; a file is modelled by its name
FileLists == { <<>>, <<F1>>, <<F2, F1>> }

SPOTIFY_PLAYLIST_ID == "radio"

\* contents of the Processed tab at the start of a run: empty, rows written
\* by earlier runs with and without a playlist id, a stale cursor, and a
\* blank row left by an edit of the sheet
MainSheets ==
    { <<>>,
      << <<F1, "pl_old", "m1">> >>,
      << <<F1, "m1">> >>,
      << <<F2, "pl_old", "m3">>, <<F1, "pl_old", "m2">> >>,
      << <<>>, <<F1, "pl_old", "m1">> >> }

CountFailed(evs) == Cardinality({ k \in 1..Len(evs) : ~evs[k].ok })

\* os.path.basename: what follows the last "/"
basename(path) ==
    LET slashes == { i \in 1..Len(path) : path[i] = "/" }
    IN IF slashes = {} THEN path
       ELSE SubSeq(path, (CHOOSE i \in slashes : \A j \in slashes : j <= i) + 1,
                   Len(path))

\* sync.py 22-27 (base[4] and base[7] are the 5th and 8th characters)
extract_date_from_filename(fname) ==
    LET base == basename(fname)
    IN IF Len(base) >= 10 /\ base[5] = "-" /\ base[8] = "-"
       THEN SubSeq(base, 1, 10)
       ELSE base

\* a de-duplication that keeps the last occurrence of each identifier
RECURSIVE Dedupe_keeps_last(_)
Dedupe_keeps_last(uris) ==
    IF uris = <<>> THEN <<>>
    ELSE LET rest == Dedupe_keeps_last(Tail(uris))
             x == Head(uris)
         IN IF \E i \in 1..Len(rest) : rest[i] = x THEN rest
            ELSE <<x>> \o rest

\* list(dict.fromkeys(uris)): first occurrences, in order
RECURSIVE Dedupe(_)
Dedupe(uris) ==
    IF uris = <<>> THEN <<>>
    ELSE LET init == Dedupe(SubSeq(uris, 1, Len(uris) - 1))
             x == uris[Len(uris)]
         IN IF \E i \in 1..Len(init) : init[i] = x THEN init
            ELSE Append(init, x)

HistorySet == <<" ", "H", "i", "s", "t", "o", "r", "y", " ", "S", "e", "t">>

Returned(id, evs) == [id |-> id, calls |-> evs]

\* the function without its branch for an existing playlist: a playlist is
\* created whatever find_playlist_by_name returns
create_spotify_playlist_for_file_ignores_existing(date_str, uris, existing, created, fail) ==
    LET playlist_name == date_str \o HistorySet
        find_ev == Ev("find_playlist_by_name", playlist_name,
                     IF fail = "find" THEN None ELSE existing, fail /= "find")
        create_ev == Ev("create_playlist", playlist_name,
                       IF fail = "create" THEN None ELSE created, fail /= "create")
        add_ev(id, tracks) ==
            Ev("add_tracks_to_specific_playlist", id, tracks, fail /= "add")
    IN IF uris = <<>> THEN Returned(None, <<>>)
       ELSE IF fail = "find" THEN Returned(None, <<find_ev>>)
       ELSE IF fail = "create" \/ ~Truthy(created)
       THEN Returned(None, <<find_ev, create_ev>>)
       ELSE Returned(IF fail = "add" THEN None ELSE created,
                     <<find_ev, create_ev, add_ev(created, Dedupe(uris))>>)

\* sync.py 281-325.  existing: the id find_playlist_by_name finds (None if
\* there is no such playlist); created: what create_playlist returns;
\* fail: the call that raises ("find", "create", "add" or "none").  The
\* events of find_playlist_by_name and create_playlist record what the call
\* returned.
create_spotify_playlist_for_file(date_str, uris, existing, created, fail) ==
    LET playlist_name == date_str \o HistorySet
        find_ev == Ev("find_playlist_by_name", playlist_name,
                     IF fail = "find" THEN None ELSE existing, fail /= "find")
        create_ev == Ev("create_playlist", playlist_name,
                       IF fail = "create" THEN None ELSE created, fail /= "create")
        add_ev(id, tracks) ==
            Ev("add_tracks_to_specific_playlist", id, tracks, fail /= "add")
    IN IF uris = <<>> THEN Returned(None, <<>>)
       ELSE IF fail = "find" THEN Returned(None, <<find_ev>>)
       ELSE IF Truthy(existing)
       THEN Returned(IF fail = "add" THEN None ELSE existing,
                     <<find_ev, add_ev(existing, uris)>>)
       ELSE IF fail = "create" \/ ~Truthy(created)
       THEN Returned(None, <<find_ev, create_ev>>)
       ELSE Returned(IF fail = "add" THEN None ELSE created,
                     <<find_ev, create_ev, add_ev(created, Dedupe(uris))>>)

\* required_sheets of setup_logging_spreadsheet, in the order of the dict
RequiredSheets == <<"Info", "Processed", "Songs Added", "Songs Not Found">>

RequiredTitles == { RequiredSheets[k] : k \in 1..Len(RequiredSheets) }

\* titles a spreadsheet may hold before the set-up: the required ones, the
\* default tab of a new spreadsheet, and a left-over tab
AllTitles == RequiredTitles \cup { "Sheet1", "Old" }

\* titles the logging spreadsheet of a run of main may hold before the
\* set-up: the default tab of a new spreadsheet and the tabs an earlier run
\* set up
MainTitles == RequiredTitles \cup { "Sheet1" }

\* the retries argument wait_for_spreadsheet_ready has by default, which is
\* what get_or_create_logging_spreadsheet polls with
DefaultRetries == 5

\* config.VDJ_HISTORY_FOLDER_ID: unset, empty, or the id of a folder
FolderIds == { None, "", "folder_id" }

\* the two calls in the wrong order: the playlist is trimmed, then extended
update_spotify_radio_playlist_trim_first(id, uris, fail) ==
    LET add_ev == Ev("add_tracks_to_specific_playlist", id, uris, fail /= "add")
        trim_ev == Ev("trim_playlist_to_limit", None, None, fail /= "trim")
    IN IF fail = "trim" THEN <<trim_ev>> ELSE <<trim_ev, add_ev>>

\* sync.py 273-278.  fail: "add", "trim" or "none"; both failures are caught
update_spotify_radio_playlist(id, uris, fail) ==
    LET add_ev == Ev("add_tracks_to_specific_playlist", id, uris, fail /= "add")
        trim_ev == Ev("trim_playlist_to_limit", None, None, fail /= "trim")
    IN IF fail = "add" THEN <<add_ev>> ELSE <<add_ev, trim_ev>>

Init ==
    /\ pc = "main_start"
    /\ processed_sheet \in MainSheets
    /\ impl = "sync"
    /\ songs = <<>>
    /\ last_extvdj_line = None
    /\ new_songs = <<>>
    /\ filename = None
    /\ processed_map = [f \in Filenames |-> None]
    /\ found_uris = <<>>
    /\ matched_songs = <<>>
    /\ unfound = <<>>
    /\ playlist_id = None
    /\ exc = FALSE
    /\ calls = <<>>
    /\ faults = 0
    /\ m3u_files = <<>>
    /\ steps = 0
    /\ folder_id \in FolderIds
    /\ tabs \in SUBSET MainTitles
    /\ retries = 0

\* an exception that leaves process_file at once, past the clean-up
Raise_skips_cleanup(evs) ==
    /\ exc' = TRUE
    /\ calls' = calls \o evs
    /\ pc' = "pf_exit"

\* an exception leaves the statement: process_file goes to its finally block
Raise(evs) ==
    /\ exc' = TRUE
    /\ calls' = calls \o evs
    /\ pc' = "pf_finally"

\* main, line 400, with get_or_create_logging_spreadsheet, lines 44-63: the
\* folder is listed; a spreadsheet found there is set up; otherwise one is
\* created, with its default tab, and polled with the default number of
\* retries.  No spreadsheet in the folder is tabs = {}.  Neither call is in
\* a try block.
Main_Start ==
    /\ pc = "main_start"
    /\ \/ /\ calls' = <<Ev("list_files", None, None, FALSE)>>
          /\ exc' = TRUE
          /\ pc' = "main_raised"
          /\ UNCHANGED <<tabs, retries>>
       \/ /\ tabs /= {}
          /\ calls' = <<Ev("list_files", None, None, TRUE)>>
          /\ pc' = "setup_ensure"
          /\ UNCHANGED <<tabs, retries, exc>>
       \/ /\ tabs = {}
          /\ \E ok \in BOOLEAN :
                /\ calls' = <<Ev("list_files", None, None, TRUE),
                              Ev("create_spreadsheet_in_folder", None, None, ok)>>
                /\ IF ok
                   THEN /\ tabs' = { "Sheet1" }
                        /\ retries' = DefaultRetries
                        /\ pc' = "wait_loop"
                        /\ UNCHANGED exc
                   ELSE /\ exc' = TRUE
                        /\ pc' = "main_raised"
                        /\ UNCHANGED <<tabs, retries>>
    /\ UNCHANGED <<songs, last_extvdj_line, new_songs, filename, processed_map,
                   processed_sheet, found_uris, matched_songs, unfound,
                   playlist_id, faults, impl, folder_id, m3u_files, steps>>

\* get_or_create_logging_spreadsheet, lines 65-67: wait_for_spreadsheet_ready
\* has returned; whatever it returned ("continuing anyway"), the new
\* spreadsheet is set up
Main_AfterWait ==
    /\ pc \in { "wait_true", "wait_false" }
    /\ pc' = "setup_ensure"
    /\ retries' = 0
    /\ UNCHANGED <<songs, last_extvdj_line, new_songs, filename, processed_map,
                   processed_sheet, found_uris, matched_songs, unfound,
                   playlist_id, faults, impl, folder_id, m3u_files, steps, tabs, calls, exc>>

\* an exception of setup_logging_spreadsheet leaves
\* get_or_create_logging_spreadsheet (lines 59, 67) and main (line 400):
\* neither has a try block
Main_SetupRaised ==
    /\ pc = "setup_raised"
    /\ pc' = "main_raised"
    /\ UNCHANGED <<songs, last_extvdj_line, new_songs, filename, processed_map,
                   processed_sheet, found_uris, matched_songs, unfound,
                   playlist_id, faults, impl, folder_id, m3u_files, steps, tabs, retries, calls, exc>>

\* main with the check of the folder id left out: the run goes on to list
\* the history files whatever the configuration holds
Main_LogStart_without_check ==
    /\ pc = "setup_done"
    /\ \E ok \in BOOLEAN :
          /\ calls' = Append(calls, Ev("log_start", None, None, ok))
          /\ IF ~ok
             THEN exc' = TRUE /\ pc' = "main_raised"
             ELSE exc' = FALSE /\ pc' = "main_list"
    /\ UNCHANGED <<songs, last_extvdj_line, new_songs, filename, processed_map,
                   processed_sheet, found_uris, matched_songs, unfound,
                   playlist_id, faults, impl, folder_id, m3u_files, steps, tabs, retries>>

\* main, lines 400-407: get_or_create_logging_spreadsheet has returned; the
\* start is logged, then the folder id is checked.  log_start is not in a
\* try block and raises when its ensure_sheet_exists does (line 133).
Main_LogStart ==
    /\ pc = "setup_done"
    /\ \E ok \in BOOLEAN :
          /\ calls' = Append(calls, Ev("log_start", None, None, ok))
          /\ IF ~ok
             THEN exc' = TRUE /\ pc' = "main_raised"
             ELSE IF ~Truthy(folder_id)
                  THEN exc' = TRUE /\ pc' = "main_raised"
                  ELSE exc' = FALSE /\ pc' = "main_list"
    /\ UNCHANGED <<songs, last_extvdj_line, new_songs, filename, processed_map,
                   processed_sheet, found_uris, matched_songs, unfound,
                   playlist_id, faults, impl, folder_id, m3u_files, steps, tabs, retries>>

\* main, lines 409-416.  get_all_m3u_files is not in a try block; neither
\* is log_info_sheet, whose ensure_sheet_exists (line 133) is outside its own
\* try; nor is the read of load_processed_map.
Main_ListFiles ==
    /\ pc = "main_list"
    /\ \/ /\ calls' = Append(calls, Ev("get_all_m3u_files", None, None, FALSE))
          /\ exc' = TRUE
          /\ pc' = "main_raised"
          /\ UNCHANGED <<m3u_files, processed_map>>
       \/ \E files \in FileLists, ok \in BOOLEAN :
             /\ m3u_files' = files
             /\ IF files = <<>>
                THEN /\ calls' = calls \o
                           <<Ev("get_all_m3u_files", None, None, TRUE),
                             Ev("log_info_sheet", "No .m3u files found.", None, ok)>>
                     /\ exc' = ~ok
                     /\ pc' = IF ok THEN "main_done" ELSE "main_raised"
                     /\ UNCHANGED processed_map
                ELSE /\ calls' = calls \o
                           <<Ev("get_all_m3u_files", None, None, TRUE),
                             Ev("read_values", "Processed", None, ok)>>
                     /\ IF ok
                        THEN /\ processed_map' = load_processed_map(processed_sheet)
                             /\ pc' = "pf_download"
                             /\ UNCHANGED exc
                        ELSE /\ exc' = TRUE
                             /\ pc' = "main_raised"
                             /\ UNCHANGED processed_map
    /\ UNCHANGED <<songs, last_extvdj_line, new_songs, filename,
                   processed_sheet, found_uris, matched_songs, unfound,
                   playlist_id, faults, impl, folder_id, tabs, retries, steps>>

\* process_file, lines 331-336
PF_Download ==
    /\ pc = "pf_download"
    /\ filename' = Head(m3u_files)
    /\ songs' = <<>>
    /\ last_extvdj_line' = None
    /\ new_songs' = <<>>
    /\ found_uris' = <<>>
    /\ matched_songs' = <<>>
    /\ unfound' = <<>>
    /\ playlist_id' = None
    /\ faults' = 0
    /\ \E ok \in BOOLEAN :
          /\ calls' = <<Ev("download_file", Head(m3u_files), None, ok)>>
          /\ exc' = ~ok
          /\ pc' = IF ok THEN "pf_parse" ELSE "pf_finally"
    /\ UNCHANGED <<processed_map, processed_sheet,
                   impl, folder_id, tabs, retries, m3u_files, steps>>

\* process_file, line 337
PF_Parse ==
    /\ pc = "pf_parse"
    /\ \/ /\ songs' \in SeqsUpTo(MainTracks, MaxSongs)
          /\ calls' = Append(calls, Ev("parse_m3u", filename, None, TRUE))
          /\ pc' = "pf_diff"
          /\ UNCHANGED exc
       \/ /\ Raise(<<Ev("parse_m3u", filename, None, FALSE)>>)
          /\ UNCHANGED songs
    /\ UNCHANGED <<last_extvdj_line, new_songs, filename, processed_map,
                   processed_sheet, found_uris, matched_songs, unfound,
                   playlist_id, faults,
                   impl, folder_id, tabs, retries, m3u_files, steps>>

\* process_file without the early return of lines 341-348: a file with no
\* new record is logged like any other
PF_Diff_logs_anyway ==
    /\ pc = "pf_diff"
    /\ last_extvdj_line' = processed_map[filename]
    /\ new_songs' = process_new_songs(songs, processed_map[filename])
    /\ pc' = IF new_songs' = <<>> THEN "pf_log_info" ELSE "pf_search"
    /\ UNCHANGED <<songs, filename, processed_map, processed_sheet, found_uris,
                   matched_songs, unfound, playlist_id, exc, calls, faults,
                   impl, folder_id, tabs, retries, m3u_files, steps>>

\* process_file, lines 339-348
PF_Diff ==
    /\ pc = "pf_diff"
    /\ last_extvdj_line' = processed_map[filename]
    /\ new_songs' = process_new_songs(songs, processed_map[filename])
    /\ pc' = IF new_songs' = <<>> THEN "pf_finally" ELSE "pf_search"
    /\ UNCHANGED <<songs, filename, processed_map, processed_sheet, found_uris,
                   matched_songs, unfound, playlist_id, exc, calls, faults,
                   impl, folder_id, tabs, retries, m3u_files, steps>>

\* the record the for loop of lines 355-365 is at
NextRecord == new_songs[Len(found_uris) + Len(unfound) + 1]

\* lines 360-365: the record is put on the found or on the unfound lists
Classify(rec, uri) ==
    IF Truthy(uri)
    THEN /\ found_uris' = Append(found_uris, uri)
         /\ matched_songs' = Append(matched_songs, <<rec[1], rec[2]>>)
         /\ UNCHANGED unfound
    ELSE /\ unfound' = Append(unfound, rec)
         /\ UNCHANGED <<found_uris, matched_songs>>

\* Mutant of PF_Search: the cursor of the file is saved after every record
PF_Search_saves_cursor ==
    /\ pc = "pf_search"
    /\ \/ \E uri \in { Catalog(NextRecord[1], NextRecord[2]), None } :
            /\ Classify(NextRecord, uri)
            /\ calls' = Append(calls, Ev("search_track", NextRecord[1],
                                         NextRecord[2], TRUE))
            /\ pc' = IF Len(found_uris) + Len(unfound) + 1 = Len(new_songs)
                     THEN "pf_radio" ELSE "pf_search"
            /\ processed_sheet' =
                  sync_log_processed(processed_sheet, filename, None,
                                     <<NextRecord>>, None, "none").sheet
            /\ UNCHANGED exc
       \/ /\ Raise(<<Ev("search_track", NextRecord[1], NextRecord[2], FALSE)>>)
          /\ UNCHANGED <<found_uris, matched_songs, unfound, processed_sheet>>
    /\ UNCHANGED <<songs, last_extvdj_line, new_songs, filename, processed_map,
                   playlist_id, faults,
                   impl, folder_id, tabs, retries, m3u_files, steps>>

\* process_file, lines 355-365: one iteration of the lookup loop; an
\* exception of search_track is not caught here
PF_Search ==
    /\ pc = "pf_search"
    /\ \/ \E uri \in { Catalog(NextRecord[1], NextRecord[2]), None } :
            /\ Classify(NextRecord, uri)
            /\ calls' = Append(calls, Ev("search_track", NextRecord[1],
                                         NextRecord[2], TRUE))
            /\ pc' = IF Len(found_uris) + Len(unfound) + 1 = Len(new_songs)
                     THEN "pf_radio" ELSE "pf_search"
            /\ UNCHANGED exc
       \/ /\ Raise(<<Ev("search_track", NextRecord[1], NextRecord[2], FALSE)>>)
          /\ UNCHANGED <<found_uris, matched_songs, unfound>>
    /\ UNCHANGED <<songs, last_extvdj_line, new_songs, filename, processed_map,
                   processed_sheet, playlist_id, faults,
                   impl, folder_id, tabs, retries, m3u_files, steps>>

\* a step whose calls evs may fail only within the budget of caught failures
Caught(evs) ==
    /\ faults + CountFailed(evs) <= MaxFaults
    /\ faults' = faults + CountFailed(evs)
    /\ calls' = calls \o evs

\* process_file, line 367
PF_UpdateRadio ==
    /\ pc = "pf_radio"
    /\ \E fail \in { "none", "add", "trim" } :
          Caught(update_spotify_radio_playlist(SPOTIFY_PLAYLIST_ID, found_uris, fail))
    /\ pc' = "pf_playlist"
    /\ UNCHANGED <<songs, last_extvdj_line, new_songs, filename, processed_map,
                   processed_sheet, found_uris, matched_songs, unfound,
                   playlist_id, exc,
                   impl, folder_id, tabs, retries, m3u_files, steps>>

\* the per-period playlist step without its try/except: an exception of the
\* streaming service leaves create_spotify_playlist_for_file and process_file
PF_CreatePlaylist_propagates ==
    /\ pc = "pf_playlist"
    /\ \E existing \in { None, "pl_old" }, created \in { None, "pl_new" },
          fail \in { "none", "find", "create", "add" } :
          LET r == create_spotify_playlist_for_file(
                       extract_date_from_filename(filename), found_uris,
                       existing, created, fail)
          IN IF AllOk(r.calls)
             THEN /\ Caught(r.calls)
                  /\ playlist_id' = r.id
                  /\ pc' = "pf_log_info"
                  /\ UNCHANGED exc
             ELSE /\ Raise(r.calls)
                  /\ UNCHANGED <<playlist_id, faults>>
    /\ UNCHANGED <<songs, last_extvdj_line, new_songs, filename, processed_map,
                   processed_sheet, found_uris, matched_songs, unfound,
                   impl, folder_id, tabs, retries, m3u_files, steps>>

\* process_file, lines 369-373
PF_CreatePlaylist ==
    /\ pc = "pf_playlist"
    /\ \E existing \in { None, "pl_old" }, created \in { None, "pl_new" },
          fail \in { "none", "find", "create", "add" } :
          LET r == create_spotify_playlist_for_file(
                       extract_date_from_filename(filename), found_uris,
                       existing, created, fail)
          IN /\ Caught(r.calls)
             /\ playlist_id' = r.id
    /\ pc' = "pf_log_info"
    /\ UNCHANGED <<songs, last_extvdj_line, new_songs, filename, processed_map,
                   processed_sheet, found_uris, matched_songs, unfound, exc,
                   impl, folder_id, tabs, retries, m3u_files, steps>>

\* log_to_sheets, lines 185-192, with log_info_sheet, lines 130-152:
\* ensure_sheet_exists is outside the try block, the append inside it
PF_LogInfo ==
    /\ pc = "pf_log_info"
    /\ \/ /\ \E ok \in BOOLEAN :
                Caught(<<Ev("ensure_sheet_exists", "Info", None, TRUE),
                         Ev("append_values", "Info",
                            <<Len(new_songs), Len(found_uris), Len(unfound)>>, ok)>>)
          /\ pc' = "pf_log_added"
          /\ UNCHANGED exc
       \/ /\ Raise(<<Ev("ensure_sheet_exists", "Info", None, FALSE)>>)
          /\ UNCHANGED faults
    /\ UNCHANGED <<songs, last_extvdj_line, new_songs, filename, processed_map,
                   processed_sheet, found_uris, matched_songs, unfound,
                   playlist_id,
                   impl, folder_id, tabs, retries, m3u_files, steps>>

\* [[date, title, artist] for ...] of lines 196 and 209
DateTitleArtist(date, list) ==
    [i \in 1..Len(list) |-> <<date, list[i][2], list[i][1]>>]

\* log_to_sheets, lines 194-206
PF_LogAdded ==
    /\ pc = "pf_log_added"
    /\ LET rows_to_append ==
               DateTitleArtist(extract_date_from_filename(filename), matched_songs)
       IN IF rows_to_append /= <<>>
          THEN \E ok \in BOOLEAN :
                  Caught(<<Ev("append_values", "Songs Added", rows_to_append, ok)>>)
          ELSE UNCHANGED <<calls, faults>>
    /\ pc' = "pf_log_unfound"
    /\ UNCHANGED <<songs, last_extvdj_line, new_songs, filename, processed_map,
                   processed_sheet, found_uris, matched_songs, unfound,
                   playlist_id, exc,
                   impl, folder_id, tabs, retries, m3u_files, steps>>

\* log_to_sheets, lines 208-220
PF_LogNotFound ==
    /\ pc = "pf_log_unfound"
    /\ LET unfound_rows ==
               DateTitleArtist(extract_date_from_filename(filename), unfound)
       IN IF unfound_rows /= <<>>
          THEN \E ok \in BOOLEAN :
                  Caught(<<Ev("append_values", "Songs Not Found", unfound_rows, ok)>>)
          ELSE UNCHANGED <<calls, faults>>
    /\ pc' = "pf_log_processed"
    /\ UNCHANGED <<songs, last_extvdj_line, new_songs, filename, processed_map,
                   processed_sheet, found_uris, matched_songs, unfound,
                   playlist_id, exc,
                   impl, folder_id, tabs, retries, m3u_files, steps>>

\* log_to_sheets, lines 222-255
PF_LogProcessed ==
    /\ pc = "pf_log_processed"
    /\ \E fail \in UpsertFails :
          LET r == sync_log_processed(processed_sheet, filename, playlist_id,
                                      new_songs, last_extvdj_line, fail)
          IN /\ Caught(r.calls)
             /\ processed_sheet' = r.sheet
    /\ pc' = "pf_finally"
    /\ UNCHANGED <<songs, last_extvdj_line, new_songs, filename, processed_map,
                   found_uris, matched_songs, unfound, playlist_id, exc,
                   impl, folder_id, tabs, retries,
                   m3u_files, steps>>

\* process_file, lines 387-392: the temp file is removed on every path
PF_Finally ==
    /\ pc = "pf_finally"
    /\ \E ok \in BOOLEAN : Caught(<<Ev("os.remove", filename, None, ok)>>)
    /\ pc' = "pf_exit"
    /\ UNCHANGED <<songs, last_extvdj_line, new_songs, filename, processed_map,
                   processed_sheet, found_uris, matched_songs, unfound,
                   playlist_id, exc,
                   impl, folder_id, tabs, retries, m3u_files, steps>>

\* main, lines 418-419: process_file returns to the loop, or its exception
\* leaves main
PF_Exit ==
    /\ pc = "pf_exit"
    /\ IF exc
       THEN pc' = "main_raised" /\ UNCHANGED m3u_files
       ELSE /\ m3u_files' = Tail(m3u_files)
            /\ pc' = IF Tail(m3u_files) = <<>> THEN "main_finish"
                     ELSE "pf_download"
    /\ steps' = steps + 1
    /\ UNCHANGED <<songs, last_extvdj_line, new_songs, filename, processed_map,
                   processed_sheet, found_uris, matched_songs, unfound,
                   playlist_id, exc, calls, faults,
                   impl, folder_id, tabs, retries>>

\* main, lines 421-423: neither call is in a try block; log_info_sheet
\* raises when its ensure_sheet_exists (line 133) does
Main_Finish ==
    /\ pc = "main_finish"
    /\ \E fail \in { "none", "format", "log" } :
          /\ calls' = IF fail = "format"
                      THEN <<Ev("apply_formatting_to_sheet", None, None, FALSE)>>
                      ELSE <<Ev("apply_formatting_to_sheet", None, None, TRUE),
                             Ev("log_info_sheet", "Sync complete.", None, fail /= "log")>>
          /\ exc' = (fail /= "none")
          /\ pc' = IF fail = "none" THEN "main_done" ELSE "main_raised"
    /\ UNCHANGED <<songs, last_extvdj_line, new_songs, filename, processed_map,
                   processed_sheet, found_uris, matched_songs, unfound,
                   playlist_id, faults,
                   impl, folder_id, tabs, retries, m3u_files, steps>>


----------------------------------------------------------------------------
(* Claims about process_file *)

\* the calls that write the Processed row: write_values (only issued for the
\* Processed tab) and append_values to the Processed tab
ProcessedWrites(evs) ==
    { k \in 1..Len(evs) :
        \/ evs[k].op = "write_values"
        \/ (evs[k].op = "append_values" /\ evs[k].a = "Processed") }

AppendsTo(evs, tab) ==
    { k \in 1..Len(evs) : evs[k].op = "append_values" /\ evs[k].a = tab }

RadioAdds(evs) ==
    { k \in 1..Len(evs) :
        evs[k].op = "add_tracks_to_specific_playlist"
            /\ evs[k].a = SPOTIFY_PLAYLIST_ID }

Lookups(evs) == { k \in 1..Len(evs) : evs[k].op = "search_track" }

FailedLookups(evs) == { k \in Lookups(evs) : ~evs[k].ok }

LastMarker == new_songs[Len(new_songs)][3]

\* C6: when process_file has completed for a file with new records (no
\* external call failed, no blank row in the tab), the cursor that
\* load_processed_map reads back for the file is the marker of the last
\* record, whatever the lookups and the per-period playlist step returned.
C6_CursorIsLastMarker ==
    ( /\ pc = "pf_exit"
      /\ ~exc
      /\ new_songs /= <<>>
      /\ AllOk(calls)
      /\ ~HasBlankRow(processed_sheet) )
    => load_processed_map(processed_sheet)[filename] = LastMarker

\* the Processed write, if any, comes after every lookup, the rolling and
\* per-period playlist steps and the Songs Added / Songs Not Found appends,
\* there is at most one, and there is none once an exception propagates
ProcessedWriteIsLast ==
    LET writes == ProcessedWrites(calls)
    IN /\ Cardinality(writes) <= 1
       /\ exc => writes = {}
       /\ \A k \in writes :
             /\ Len(found_uris) + Len(unfound) = Len(new_songs)
             /\ Cardinality({ j \in Lookups(calls) : j < k }) = Len(new_songs)
             /\ \E j \in RadioAdds(calls) : j < k
             /\ found_uris /= <<>> =>
                   \E j \in 1..(k - 1) : calls[j].op = "find_playlist_by_name"
             /\ matched_songs /= <<>> =>
                   \E j \in AppendsTo(calls, "Songs Added") : j < k
             /\ unfound /= <<>> =>
                   \E j \in AppendsTo(calls, "Songs Not Found") : j < k

\* C7: within process_file the Processed row is written at most once and
\* only after all lookups, playlist updates and song-row appends; the tab
\* changes in no other step, so a run that an exception interrupts leaves
\* the Processed entry of the file at its pre-run value.
C7_ProcessedWrittenOnceAtEnd ==
    [][ /\ ProcessedWriteIsLast'
        /\ processed_sheet' /= processed_sheet =>
              /\ pc = "pf_log_processed"
              /\ ~exc
              /\ ProcessedWrites(calls) = {}
              /\ ProcessedWrites(calls') /= {}
        /\ (exc /\ pc' \in { "pf_finally", "pf_exit", "main_raised" }) =>
              processed_sheet' = processed_sheet ]_vars

C7_Witness ==
    /\ pc = "pf_exit"
    /\ ~exc
    /\ Len(new_songs) = 2
    /\ Len(found_uris) = 1
    /\ Len(unfound) = 1
    /\ Cardinality(ProcessedWrites(calls)) = 1
    /\ \E i \in Holders(processed_sheet, filename) :
          processed_sheet[i] = <<filename, playlist_id, LastMarker>>

\* C8: when the lookup of one record raises, process_file still classifies
\* every new record (the failing one as unfound), updates the rolling
\* playlist and logs the results.
C8_LookupFailureIsolated ==
    (pc = "pf_exit" /\ FailedLookups(calls) /= {})
    => /\ ~exc
       /\ Len(found_uris) + Len(unfound) = Len(new_songs)
       /\ \A k \in FailedLookups(calls) :
             \E i \in 1..Len(unfound) :
                unfound[i][1] = calls[k].a /\ unfound[i][2] = calls[k].b
       /\ RadioAdds(calls) /= {}
       /\ AppendsTo(calls, "Info") /= {}

\* C9: for a file with new records, when process_file is left every new
\* record is on exactly one of the found / unfound lists, matched_songs is
\* aligned with found_uris, the rolling-playlist updater was called exactly
\* once with the found identifiers, and one Songs Added row per found and
\* one Songs Not Found row per unfound record was sent to the sheet.
C9_EveryRecordClassifiedAndLogged ==
    (pc = "pf_exit" /\ new_songs /= <<>>)
    => /\ Len(found_uris) + Len(unfound) = Len(new_songs)
       /\ Len(matched_songs) = Len(found_uris)
       /\ Cardinality(RadioAdds(calls)) = 1
       /\ \A k \in RadioAdds(calls) : calls[k].b = found_uris
       /\ found_uris /= <<>> =>
             /\ Cardinality(AppendsTo(calls, "Songs Added")) = 1
             /\ \A k \in AppendsTo(calls, "Songs Added") :
                   Len(calls[k].b) = Len(found_uris)
       /\ found_uris = <<>> => AppendsTo(calls, "Songs Added") = {}
       /\ unfound /= <<>> =>
             /\ Cardinality(AppendsTo(calls, "Songs Not Found")) = 1
             /\ \A k \in AppendsTo(calls, "Songs Not Found") :
                   Len(calls[k].b) = Len(unfound)
       /\ unfound = <<>> => AppendsTo(calls, "Songs Not Found") = {}


----------------------------------------------------------------------------
(* Claims about the Processed tab across runs                              *)

\* C11: starting from a Processed tab with at most one row per file name,
\* after any sequence of result-logging calls, by either implementation and
\* for any file names in any order, the tab still holds at most one row per
\* file name.
C11_OneRowPerFilename ==
    \A f \in Filenames : Cardinality(Holders(processed_sheet, f)) <= 1

----------------------------------------------------------------------------
(* SpecLog: one whole call of log_to_sheets, by either implementation,     *)
(* with any of its spreadsheet calls failing                               *)

\* the spreadsheet calls that precede the Processed upsert
HeadCalls == { "ensure", "info", "added", "unfound" }

Logged(evs, raised) == [calls |-> evs, raised |-> raised]

\* the Info row and the two song logs.  sync.py 185-220 with log_info_sheet
\* 130-152, and sheet_logging.py 143-175 with _append_values 111-126:
\* ensure_sheet_exists is called outside every try block, each append sits
\* in its own try block.  fails: the calls of HeadCalls that raise.
log_head(date, matched, uris, unf, new, fails) ==
    LET ensure_ev == Ev("ensure_sheet_exists", "Info", None, "ensure" \notin fails)
        info_ev == Ev("append_values", "Info",
                      <<Len(new), Len(uris), Len(unf)>>, "info" \notin fails)
        rows_to_append == DateTitleArtist(date, matched)
        unfound_rows == DateTitleArtist(date, unf)
        added_evs == IF rows_to_append /= <<>>
                     THEN <<Ev("append_values", "Songs Added", rows_to_append,
                               "added" \notin fails)>>
                     ELSE <<>>
        unfound_evs == IF unfound_rows /= <<>>
                       THEN <<Ev("append_values", "Songs Not Found", unfound_rows,
                                 "unfound" \notin fails)>>
                       ELSE <<>>
    IN IF "ensure" \in fails THEN Logged(<<ensure_ev>>, TRUE)
       ELSE Logged(<<ensure_ev, info_ev>> \o added_evs \o unfound_evs, FALSE)

\* sync.py 173-255
sync_log_to_sheets(sheet, date, matched, uris, unf, fname, new, last, pid, fails, pfail) ==
    LET head == log_head(date, matched, uris, unf, new, fails)
        p == sync_log_processed(sheet, fname, pid, new, last, pfail)
    IN IF head.raised THEN Upserted(sheet, head.calls, TRUE)
       ELSE Upserted(p.sheet, head.calls \o p.calls, p.raised)

\* sheet_logging.py 249-282 calling log_spreadsheet, 128-217
logger_log_to_sheets(sheet, date, matched, uris, unf, fname, new, last, pid, fails, pfail) ==
    LET head == log_head(date, matched, uris, unf, new, fails)
        p == logger_log_processed(sheet, fname, pid, new, last, pfail)
    IN IF head.raised THEN Upserted(sheet, head.calls, TRUE)
       ELSE Upserted(p.sheet, head.calls \o p.calls, p.raised)

\* the new records of a file, each looked up with the outcome found[i]
LogInputs ==
    { [new |-> n, found |-> fnd] :
        n \in { <<TA>>, <<TA, TB>> }, fnd \in [1..2 -> BOOLEAN] }

RECURSIVE FoundOf(_, _)
FoundOf(new, found) ==
    IF new = <<>> THEN <<>>
    ELSE LET n == Len(new)
             front == FoundOf(SubSeq(new, 1, n - 1), found)
         IN IF found[n] THEN Append(front, new[n]) ELSE front

RECURSIVE UnfoundOf(_, _)
UnfoundOf(new, found) ==
    IF new = <<>> THEN <<>>
    ELSE LET n == Len(new)
             front == UnfoundOf(SubSeq(new, 1, n - 1), found)
         IN IF found[n] THEN front ELSE Append(front, new[n])

\* process_file, lines 354-366: the lists handed to log_to_sheets
InitLog ==
    /\ pc = "log_ready"
    /\ impl \in { "sync", "sheet_logging" }
    /\ processed_sheet \in MainSheets
    /\ filename \in Filenames
    /\ playlist_id \in { None, "pl_new" }
    /\ last_extvdj_line \in { None, "m0" }
    /\ \E inp \in LogInputs :
          /\ new_songs = inp.new
          /\ songs = inp.new
          /\ LET hit == FoundOf(inp.new, inp.found)
             IN /\ matched_songs = [i \in 1..Len(hit) |-> <<hit[i][1], hit[i][2]>>]
                /\ found_uris = [i \in 1..Len(hit) |-> Catalog(hit[i][1], hit[i][2])]
          /\ unfound = UnfoundOf(inp.new, inp.found)
    /\ processed_map = <<>>
    /\ exc = FALSE
    /\ calls = <<>>
    /\ faults = 0
    /\ m3u_files = <<>>
    /\ steps = 0
    /\ folder_id = None
    /\ tabs = {}
    /\ retries = 0

LogWith(r) ==
    /\ processed_sheet' = r.sheet
    /\ calls' = r.calls
    /\ exc' = r.raised
    /\ pc' = "log_done"
    /\ steps' = steps + 1
    /\ UNCHANGED <<songs, last_extvdj_line, new_songs, filename, processed_map,
                   found_uris, matched_songs, unfound, playlist_id, faults,
                   impl, folder_id, tabs, retries, m3u_files>>

\* sync.log_to_sheets, lines 173-255
LogToSheetsSync ==
    /\ pc = "log_ready"
    /\ impl = "sync"
    /\ \E fails \in SUBSET HeadCalls, pfail \in UpsertFails :
          LogWith(sync_log_to_sheets(processed_sheet,
                     extract_date_from_filename(filename), matched_songs,
                     found_uris, unfound, filename, new_songs,
                     last_extvdj_line, playlist_id, fails, pfail))

\* SpreadsheetLogger.log_to_sheets, sheet_logging.py 249-282
LogToSheetsLogger ==
    /\ pc = "log_ready"
    /\ impl = "sheet_logging"
    /\ \E fails \in SUBSET HeadCalls, pfail \in UpsertFails :
          LogWith(logger_log_to_sheets(processed_sheet,
                     extract_date_from_filename(filename), matched_songs,
                     found_uris, unfound, filename, new_songs,
                     last_extvdj_line, playlist_id, fails, pfail))

NextLog == LogToSheetsSync \/ LogToSheetsLogger

SpecLog == InitLog /\ [][NextLog]_vars

\* the steps of log_to_sheets that the lists handed to it call for have
\* all been attempted
LoggingStepsAttempted(evs) ==
    /\ AppendsTo(evs, "Info") /= {}
    /\ matched_songs /= <<>> => AppendsTo(evs, "Songs Added") /= {}
    /\ unfound /= <<>> => AppendsTo(evs, "Songs Not Found") /= {}
    /\ CallsOf(evs, "read_values") /= {}

\* C12: whichever of the appends to Info, Songs Added and Songs Not Found,
\* the read, write or append of the Processed row and the sort fails,
\* log_to_sheets returns normally and has attempted every logging step.
C12_LoggingNeverFatal ==
    ( /\ pc = "log_done"
      /\ \A k \in CallsOf(calls, "ensure_sheet_exists") : calls[k].ok )
    => /\ ~exc
       /\ LoggingStepsAttempted(calls)

----------------------------------------------------------------------------
(* Claims about main                                                       *)

\* the calls main makes before it looks at the folder id
BeforeFolderCheck ==
    { "list_files", "create_spreadsheet_in_folder", "get_spreadsheet_metadata",
      "time.sleep", "ensure_sheet_exists", "batch_update", "log_start" }

\* where main is before it looks at the folder id
BeforeListing ==
    { "main_start", "wait_loop", "wait_true", "wait_false", "setup_ensure",
      "setup_metadata", "setup_cleanup", "setup_done", "setup_raised" }

\* C13: when VDJ_HISTORY_FOLDER_ID is missing or empty, main never gets
\* past the set-up of the logging spreadsheet and the start message: the
\* step that looks at the folder id ends main by raising, and so does any
\* earlier end of the run; no history file has been listed, downloaded or
\* processed, no playlist call and no Processed write has been made, and
\* 'Sync complete' has not been logged.
C13_MissingFolderAborts ==
    [][ ~Truthy(folder_id)
        => /\ pc' \in BeforeListing \cup { "main_raised" }
           /\ pc = "setup_done" => pc' = "main_raised"
           /\ pc' \in { "main_raised", "setup_raised" } => exc'
           /\ \A k \in 1..Len(calls') : calls'[k].op \in BeforeFolderCheck
           /\ m3u_files' = <<>>
           /\ processed_sheet' = processed_sheet
           /\ steps' = 0 ]_vars

C13_Witness ==
    /\ ~Truthy(folder_id)
    /\ pc = "main_raised"
    /\ exc
    /\ calls[Len(calls)].op = "log_start"
    /\ AllOk(calls)

----------------------------------------------------------------------------
(* SpecWait: wait_for_spreadsheet_ready, sync.py 75-93 and                 *)
(* sheet_logging.py 72-85                                                  *)

MaxRetries == 7

\* the metadata fetch of the implementation in use (sync.py 82,
\* sheet_logging.py 78)
MetadataOp == IF impl = "sync" THEN "get_spreadsheet_metadata" ELSE "get_metadata"

\* number of metadata fetches made so far: attempt - 1 inside the loop
Fetches(evs) == { k \in 1..Len(evs) : evs[k].op \in { "get_spreadsheet_metadata", "get_metadata" } }

InitWait ==
    /\ pc = "wait_loop"
    /\ retries \in -1..MaxRetries
    /\ impl \in { "sync", "sheet_logging" }
    /\ calls = <<>>
    /\ exc = FALSE
    /\ songs = <<>>
    /\ last_extvdj_line = None
    /\ new_songs = <<>>
    /\ filename = None
    /\ processed_map = <<>>
    /\ processed_sheet = <<>>
    /\ found_uris = <<>>
    /\ matched_songs = <<>>
    /\ unfound = <<>>
    /\ playlist_id = None
    /\ faults = 0
    /\ m3u_files = <<>>
    /\ steps = 0
    /\ folder_id = None
    /\ tabs = {}

\* the loop with one attempt too many: range(1, retries + 2)
Wait_Attempt_one_more ==
    /\ pc = "wait_loop"
    /\ Cardinality(Fetches(calls)) < retries + 1
    /\ \E ok \in BOOLEAN :
          IF ok
          THEN /\ calls' = Append(calls, Ev(MetadataOp, None, None, TRUE))
               /\ pc' = "wait_true"
          ELSE /\ calls' = calls \o <<Ev(MetadataOp, None, None, FALSE),
                                       Ev("time.sleep", None, None, TRUE)>>
               /\ pc' = "wait_loop"
    /\ UNCHANGED <<songs, last_extvdj_line, new_songs, filename, processed_map,
                   processed_sheet, found_uris, matched_songs, unfound,
                   playlist_id, exc, faults,
                   impl, folder_id, tabs, retries, m3u_files, steps>>

\* one iteration of for attempt in range(1, retries + 1): a fetch that
\* succeeds returns True; one that raises is caught and followed by the
\* delay
Wait_Attempt ==
    /\ pc = "wait_loop"
    /\ Cardinality(Fetches(calls)) < retries
    /\ \E ok \in BOOLEAN :
          IF ok
          THEN /\ calls' = Append(calls, Ev(MetadataOp, None, None, TRUE))
               /\ pc' = "wait_true"
          ELSE /\ calls' = calls \o <<Ev(MetadataOp, None, None, FALSE),
                                       Ev("time.sleep", None, None, TRUE)>>
               /\ pc' = "wait_loop"
    /\ UNCHANGED <<songs, last_extvdj_line, new_songs, filename, processed_map,
                   processed_sheet, found_uris, matched_songs, unfound,
                   playlist_id, exc, faults,
                   impl, folder_id, tabs, retries, m3u_files, steps>>

\* the range is exhausted: return False
Wait_Exhausted ==
    /\ pc = "wait_loop"
    /\ Cardinality(Fetches(calls)) >= retries
    /\ pc' = "wait_false"
    /\ UNCHANGED <<songs, last_extvdj_line, new_songs, filename, processed_map,
                   processed_sheet, found_uris, matched_songs, unfound,
                   playlist_id, exc, calls, faults,
                   impl, folder_id, tabs, retries, m3u_files, steps>>

NextWait == Wait_Attempt \/ Wait_Exhausted

SpecWait == InitWait /\ [][NextWait]_vars

\* the interpreter keeps running the loop: a step that can be taken is taken
SpecWaitLive == SpecWait /\ WF_vars(NextWait)

FailedFetches(evs) == { k \in Fetches(evs) : ~evs[k].ok }

WaitBounded ==
    /\ ~exc
    /\ Cardinality(Fetches(calls)) <= (IF retries > 0 THEN retries ELSE 0)
    \* one delay right after each failed fetch, and no other delay
    /\ \A k \in 1..Len(calls) :
          (calls[k].op = "time.sleep") <=> (k - 1 \in FailedFetches(calls))
    \* a successful fetch ends the polling
    /\ \A k \in Fetches(calls) : calls[k].ok => (k = Len(calls) /\ pc = "wait_true")
    /\ pc = "wait_true" => (calls /= <<>> /\ calls[Len(calls)].ok
                              /\ Len(calls) \in Fetches(calls))
    /\ pc = "wait_false"
          => /\ Cardinality(Fetches(calls)) = (IF retries > 0 THEN retries ELSE 0)
             /\ Fetches(calls) = FailedFetches(calls)

\* C14: the readiness poll makes at most `retries` metadata fetches, with
\* one delay after each failed one, never raises, returns True at the first
\* successful fetch without fetching again, returns False exactly when all
\* `retries` fetches failed, and always terminates.
C14_WaitTerminates ==
    /\ []WaitBounded
    /\ <>(pc \in { "wait_true", "wait_false" })

C14_Witness ==
    /\ pc = "wait_false"
    /\ retries = 5
    /\ Cardinality(FailedFetches(calls)) = 5

----------------------------------------------------------------------------
(* Claims about the playlist steps of process_file                         *)

Trims(evs) == CallsOf(evs, "trim_playlist_to_limit")

\* the rolling playlist is extended at most once per file, with all the
\* found identifiers, and trimmed exactly when, and right after, that
\* append succeeded
AppendThenTrim(evs) ==
    /\ Cardinality(RadioAdds(evs)) <= 1
    /\ \A a \in RadioAdds(evs) :
          /\ evs[a].b = found_uris
          /\ evs[a].ok <=> (a + 1 \in Trims(evs))
    /\ \A t \in Trims(evs) : t - 1 \in RadioAdds(evs)

\* C15: update_spotify_radio_playlist appends all found identifiers and
\* then trims: the trim never precedes the append and runs exactly once
\* after a successful append; a failure of either call is caught, so the
\* per-period playlist step and the result logging follow.
C15_AppendThenTrim ==
    [][ /\ AppendThenTrim(calls')
        /\ pc = "pf_radio"
              => /\ pc' = "pf_playlist"
                 /\ ~exc'
                 /\ Cardinality(RadioAdds(calls')) = 1
        /\ pc = "pf_playlist" => (pc' = "pf_log_info" /\ ~exc')
        /\ pc = "pf_log_info"
              => CallsOf(calls', "ensure_sheet_exists") /= {} ]_vars

C15_Witness ==
    /\ pc = "pf_exit"
    /\ ~exc
    /\ \E t \in Trims(calls) : ~calls[t].ok
    /\ CallsOf(calls, "find_playlist_by_name") /= {}
    /\ ProcessedWrites(calls) /= {}

----------------------------------------------------------------------------
(* SpecPlaylist: create_spotify_playlist_for_file on the date derived from *)
(* a file name, sync.py 281-325 with 22-27 and 369-373                     *)

MaxUris == 3

Uris == { "u1", "u2" }

\* file names with and without a date prefix, with a prefix that has the
\* dashes of a date but no digits, and one inside a folder path
N1 == <<"2", "0", "2", "4", "-", "0", "1", "-", "0", "2">>
N2 == <<"a", "b", "c", "d", "-", "e", "f", "-", "g", "h", ".", "m", "3", "u">>
N3 == <<"2", "0", "2", "4", "-", "1", "-", "2", ".", "m", "3", "u">>
N4 == <<"d", "/", "2", "0", "2", "4", "-", "0", "1", "-", "0", "2", ".", "m", "3", "u">>

PlaylistFiles == { F1, F2, N1, N2, N3, N4 }

InitPlaylist ==
    /\ pc = "playlist_ready"
    /\ filename \in PlaylistFiles
    /\ found_uris \in SeqsUpTo(Uris, MaxUris)
    /\ playlist_id = None
    /\ calls = <<>>
    /\ exc = FALSE
    /\ impl = "sync"
    /\ songs = <<>>
    /\ last_extvdj_line = None
    /\ new_songs = <<>>
    /\ processed_map = <<>>
    /\ processed_sheet = <<>>
    /\ matched_songs = <<>>
    /\ unfound = <<>>
    /\ faults = 0
    /\ m3u_files = <<>>
    /\ steps = 0
    /\ folder_id = None
    /\ tabs = {}
    /\ retries = 0

\* process_file, lines 369-373: date = extract_date_from_filename(filename);
\* playlist_id = create_spotify_playlist_for_file(date, found_uris)
CallCreatePlaylist ==
    /\ pc = "playlist_ready"
    /\ \E existing \in { None, "pl_old" }, created \in { None, "pl_new" },
          fail \in { "none", "find", "create", "add" } :
          LET r == create_spotify_playlist_for_file(
                       extract_date_from_filename(filename), found_uris,
                       existing, created, fail)
          IN /\ calls' = r.calls
             /\ playlist_id' = r.id
    /\ pc' = "playlist_done"
    /\ steps' = steps + 1
    /\ UNCHANGED <<songs, last_extvdj_line, new_songs, filename, processed_map,
                   processed_sheet, found_uris, matched_songs, unfound, exc,
                   faults, impl, folder_id, tabs, retries, m3u_files>>

NextPlaylist == CallCreatePlaylist

SpecPlaylist == InitPlaylist /\ [][NextPlaylist]_vars

\* what find_playlist_by_name returned, None when it raised or was not called
FoundExisting(evs) ==
    IF evs /= <<>> /\ evs[1].op = "find_playlist_by_name" /\ evs[1].ok
    THEN evs[1].b ELSE None

\* find_playlist_by_name returned without finding a playlist
FoundNone(evs) ==
    evs /= <<>> /\ evs[1].op = "find_playlist_by_name" /\ evs[1].ok
        /\ ~Truthy(evs[1].b)

PlaylistAdds(evs) == CallsOf(evs, "add_tracks_to_specific_playlist")

\* C16: when a playlist of the derived name exists and found_uris is not
\* empty, no playlist is created, the found identifiers are appended to the
\* existing playlist, and, the append having succeeded, the existing
\* playlist's id is returned.
C16_ExistingPlaylistExtended ==
    ( /\ pc = "playlist_done"
      /\ found_uris /= <<>>
      /\ Truthy(FoundExisting(calls)) )
    => /\ CallsOf(calls, "create_playlist") = {}
       /\ Cardinality(PlaylistAdds(calls)) = 1
       /\ \A k \in PlaylistAdds(calls) :
             /\ calls[k].a = FoundExisting(calls)
             /\ calls[k].b = found_uris
             /\ calls[k].ok => playlist_id = FoundExisting(calls)

C16_Witness ==
    /\ pc = "playlist_done"
    /\ found_uris = <<"u1", "u2", "u1">>
    /\ FoundExisting(calls) = "pl_old"
    /\ playlist_id = "pl_old"

\* t holds the elements of u once each, in the order of their first
\* occurrence in u
IsStableDedupe(t, u) ==
    /\ { t[i] : i \in 1..Len(t) } = { u[i] : i \in 1..Len(u) }
    /\ \A i, j \in 1..Len(t) : i /= j => t[i] /= t[j]
    /\ \A i, j \in 1..Len(t) :
          i < j => Index(u, t[i]) < Index(u, t[j])

\* C17: when no playlist of the derived name exists, the playlist is
\* created and exactly the found identifiers, duplicates removed and first
\* occurrences kept in order, are added to it, and the new id is returned;
\* when the creation returns no id, no track is added and None is returned.
C17_NewPlaylistStableDedupe ==
    ( /\ pc = "playlist_done"
      /\ found_uris /= <<>>
      /\ FoundNone(calls) )
    => LET creates == CallsOf(calls, "create_playlist")
       IN /\ creates = { 2 }
          /\ calls[2].a = calls[1].a
          /\ IF calls[2].ok /\ Truthy(calls[2].b)
             THEN /\ PlaylistAdds(calls) = { 3 }
                  /\ calls[3].a = calls[2].b
                  /\ IsStableDedupe(calls[3].b, found_uris)
                  /\ calls[3].ok => playlist_id = calls[2].b
             ELSE /\ PlaylistAdds(calls) = {}
                  /\ playlist_id = None

C17_Witness ==
    /\ pc = "playlist_done"
    /\ found_uris = <<"u2", "u1", "u2">>
    /\ FoundNone(calls)
    /\ playlist_id = "pl_new"
    /\ calls[3].b = <<"u2", "u1">>

IsDigit(c) == c \in { "0", "1", "2", "3", "4", "5", "6", "7", "8", "9" }

\* the name begins with YYYY-MM-DD
HasDatePrefix(fname) ==
    /\ Len(fname) >= 10
    /\ \A i \in { 1, 2, 3, 4, 6, 7, 9, 10 } : IsDigit(fname[i])
    /\ fname[5] = "-"
    /\ fname[8] = "-"

\* C18: for every file name the playlist is looked up under
\* '<date> History Set', where date is the first 10 characters of the file
\* name when it begins with a YYYY-MM-DD date, and the file name otherwise.
C18_PlaylistNameFromDatePrefix ==
    ( pc = "playlist_done" /\ calls /= <<>> )
    => calls[1].a = (IF HasDatePrefix(filename)
                     THEN SubSeq(filename, 1, 10)
                     ELSE filename) \o HistorySet

----------------------------------------------------------------------------
(* Claims about the clean-up of process_file                               *)

\* the positions of process_file before its finally block has run
InProcessFile ==
    { "pf_parse", "pf_diff", "pf_search", "pf_radio", "pf_playlist",
      "pf_log_info", "pf_log_added", "pf_log_unfound", "pf_log_processed",
      "pf_finally" }

Removes(evs) == CallsOf(evs, "os.remove")

\* C19: on every way out of process_file (the normal end, the early return
\* when there is no new record, an exception of download, parse, lookup or
\* logging) the temporary file is removed by exactly one attempt, made
\* after every other step for the file; a failed removal raises nothing.
C19_TempFileRemovedOnce ==
    [][ /\ pc' \in InProcessFile => Removes(calls') = {}
        /\ pc \in InProcessFile => pc' \in InProcessFile \cup { "pf_exit" }
        /\ (pc' = "pf_exit" /\ pc /= "pf_exit")
              => /\ pc = "pf_finally"
                 /\ Removes(calls') = { Len(calls') }
                 /\ calls'[Len(calls')].a = filename'
                 /\ SubSeq(calls', 1, Len(calls') - 1) = calls
                 /\ exc' = exc ]_vars

C19_Witness ==
    /\ pc = "pf_exit"
    /\ exc
    /\ Len(calls) > 2
    /\ calls[Len(calls)].op = "os.remove"
    /\ ~calls[Len(calls)].ok

----------------------------------------------------------------------------
(* SpecSetup: setup_logging_spreadsheet, sync.py 96-118 with 30-40, and    *)
(* sheet_logging.py 87-109 with 23-39 and 316-317                          *)

\* impl: "sync" is sync.setup_logging_spreadsheet; "sheet_logging" is the
\* method of a SpreadsheetLogger built with a spreadsheet id;
\* "sheet_logging_wrapper" is the module-level function, which builds
\* SpreadsheetLogger(g) with no spreadsheet id
SetupImpls == { "sync", "sheet_logging", "sheet_logging_wrapper" }

InitSetup ==
    /\ pc = "setup_ensure"
    /\ tabs \in (SUBSET AllTitles) \ { {} }
    /\ impl \in SetupImpls
    /\ calls = <<>>
    /\ exc = FALSE
    /\ songs = <<>>
    /\ last_extvdj_line = None
    /\ new_songs = <<>>
    /\ filename = None
    /\ processed_map = <<>>
    /\ processed_sheet = <<>>
    /\ found_uris = <<>>
    /\ matched_songs = <<>>
    /\ unfound = <<>>
    /\ playlist_id = None
    /\ faults = 0
    /\ m3u_files = <<>>
    /\ steps = 0
    /\ folder_id = None
    /\ retries = 0

\* one iteration of the loop over required_sheets (sync.py 107-108,
\* sheet_logging.py 97-100); the call is outside every try block
Setup_Ensure ==
    /\ pc = "setup_ensure"
    /\ LET done == Cardinality(CallsOf(calls, "ensure_sheet_exists"))
           sheet_name == RequiredSheets[done + 1]
       IN \E ok \in BOOLEAN :
             /\ calls' = Append(calls, Ev("ensure_sheet_exists", sheet_name, None, ok))
             /\ IF ok
                THEN /\ tabs' = tabs \cup { sheet_name }
                     /\ pc' = IF done + 1 = Len(RequiredSheets)
                              THEN "setup_metadata" ELSE "setup_ensure"
                     /\ UNCHANGED exc
                ELSE /\ exc' = TRUE
                     /\ pc' = "setup_raised"
                     /\ UNCHANGED tabs
    /\ UNCHANGED <<songs, last_extvdj_line, new_songs, filename, processed_map,
                   processed_sheet, found_uris, matched_songs, unfound,
                   playlist_id, faults, impl, folder_id, retries, m3u_files,
                   steps>>

\* how a call of the clean-up ends: it returns, raises an HttpError, which
\* the except clause of the clean-up catches (sync.py 117-118,
\* sheet_logging.py 108-109), or raises another exception, which leaves
\* setup_logging_spreadsheet
CallEnds == { "ok", "HttpError", "other" }

\* the metadata fetch that opens the clean-up (sync.py 111, sheet_logging.py
\* 102)
Setup_Metadata ==
    /\ pc = "setup_metadata"
    /\ \E end \in CallEnds :
          /\ calls' = Append(calls, Ev(MetadataOp, None, None, end = "ok"))
          /\ pc' = CASE end = "ok" -> "setup_cleanup"
                     [] end = "HttpError" -> "setup_done"
                     [] OTHER -> "setup_raised"
          /\ exc' = (end = "other")
    /\ UNCHANGED <<songs, last_extvdj_line, new_songs, filename, processed_map,
                   processed_sheet, found_uris, matched_songs, unfound,
                   playlist_id, faults, impl, folder_id, tabs, retries,
                   m3u_files, steps>>

\* one iteration of the clean-up loop on a title that is not required:
\* delete_sheet_by_name fetches the metadata and deletes the tab (sync.py
\* 30-40).  The method of sheet_logging.py 28-39 first asks for the stored
\* spreadsheet id and raises ValueError when the logger has none; the
\* except clause of the clean-up catches HttpError only.
\* fail: the call that raises; end: how it does
Setup_Delete ==
    /\ pc = "setup_cleanup"
    /\ \E title \in tabs \ RequiredTitles :
          IF impl = "sheet_logging_wrapper"
          THEN /\ exc' = TRUE
               /\ pc' = "setup_raised"
               /\ UNCHANGED <<calls, tabs>>
          ELSE \E fail \in { "none", "metadata", "delete" },
                  end \in CallEnds \ { "ok" } :
                  LET meta_ev == Ev(MetadataOp, None, None, fail /= "metadata")
                      del_ev == Ev("batch_update", "deleteSheet", title, fail /= "delete")
                  IN /\ calls' = IF fail = "metadata" THEN Append(calls, meta_ev)
                                 ELSE calls \o <<meta_ev, del_ev>>
                     /\ tabs' = IF fail = "none" THEN tabs \ { title } ELSE tabs
                     /\ pc' = IF fail = "none" THEN "setup_cleanup"
                              ELSE IF end = "HttpError" THEN "setup_done"
                              ELSE "setup_raised"
                     /\ exc' = (fail /= "none" /\ end = "other")
    /\ UNCHANGED <<songs, last_extvdj_line, new_songs, filename, processed_map,
                   processed_sheet, found_uris, matched_songs, unfound,
                   playlist_id, faults, impl, folder_id, retries, m3u_files,
                   steps>>

\* the clean-up loop has passed every title: the function returns
Setup_Return ==
    /\ pc = "setup_cleanup"
    /\ tabs \subseteq RequiredTitles
    /\ pc' = "setup_done"
    /\ UNCHANGED <<songs, last_extvdj_line, new_songs, filename, processed_map,
                   processed_sheet, found_uris, matched_songs, unfound,
                   playlist_id, exc, calls, faults, impl, folder_id, tabs,
                   retries, m3u_files, steps>>

NextSetup == Setup_Ensure \/ Setup_Metadata \/ Setup_Delete \/ Setup_Return

SpecSetup == InitSetup /\ [][NextSetup]_vars

----------------------------------------------------------------------------
(* The run of main: sync.py 395-423 *)

Next ==
    \/ Main_Start
    \/ Wait_Attempt
    \/ Wait_Exhausted
    \/ Main_AfterWait
    \/ Setup_Ensure
    \/ Setup_Metadata
    \/ Setup_Delete
    \/ Setup_Return
    \/ Main_SetupRaised
    \/ Main_LogStart
    \/ Main_ListFiles
    \/ PF_Download
    \/ PF_Parse
    \/ PF_Diff
    \/ PF_Search
    \/ PF_UpdateRadio
    \/ PF_CreatePlaylist
    \/ PF_LogInfo
    \/ PF_LogAdded
    \/ PF_LogNotFound
    \/ PF_LogProcessed
    \/ PF_Finally
    \/ PF_Exit
    \/ Main_Finish

Spec == Init /\ [][Next]_vars

\* C20: for every initial set of tabs and each of the three ways of calling
\* it, a set-up none of whose spreadsheet calls fails returns normally and
\* leaves exactly the tabs Info, Processed, Songs Added and Songs Not Found.
C20_ExactlyFourTabs ==
    ( pc \in { "setup_done", "setup_raised" } /\ AllOk(calls) )
    => /\ pc = "setup_done"
       /\ ~exc
       /\ tabs = RequiredTitles

----------------------------------------------------------------------------
(* Claims about the failures of the per-period playlist step               *)

\* the calls a step has added to the trace
NewCalls(before, after) == SubSeq(after, Len(before) + 1, Len(after))

\* C22: create_spotify_playlist_for_file never raises: with no found
\* identifier it returns None and calls the streaming service not at all;
\* when finding, creating or adding raises, the exception is caught and the
\* result is None; process_file then goes on to log the file's results.
C22_PlaylistStepNeverRaises ==
    [][ /\ pc = "pf_playlist"
              => LET evs == NewCalls(calls, calls')
                 IN /\ pc' = "pf_log_info"
                    /\ ~exc'
                    /\ found_uris = <<>> => (evs = <<>> /\ playlist_id' = None)
                    /\ ~AllOk(evs) => playlist_id' = None
        /\ pc = "pf_log_info"
              => CallsOf(NewCalls(calls, calls'), "ensure_sheet_exists") /= {} ]_vars

C22_Witness ==
    /\ pc = "pf_exit"
    /\ ~exc
    /\ playlist_id = None
    /\ \E k \in PlaylistAdds(calls) :
          calls[k].a /= SPOTIFY_PLAYLIST_ID /\ ~calls[k].ok
    /\ ProcessedWrites(calls) /= {}

----------------------------------------------------------------------------
(* Claims about the sort that follows the Processed upsert                 *)

Sorts(evs) == CallsOf(evs, "sort_sheet")

\* the data rows, from sheet row 2 down, are in descending order of their
\* column C, rows without a column C last, and no blank row lies between
SortedDescending(sheet) ==
    /\ \A i \in 1..Len(sheet) : sheet[i] /= <<>>
    /\ \A i, j \in 1..Len(sheet) :
          i < j => SortKey(sheet[i]) >= SortKey(sheet[j])

\* C23: an upsert whose write or append succeeded is followed by exactly
\* one sort of the Processed tab, on column index 2, descending, from row 2;
\* a sort is never issued before the write, and a sort that succeeded
\* leaves the data rows in descending order of that column.
C23_SortOnceAfterUpsert ==
    [][ ( steps' = steps + 1 /\ pc' = "upsert_done" )
        => /\ \A w \in ProcessedWrites(calls') :
                 calls'[w].ok
                    => /\ Sorts(calls') = { w + 1 }
                       /\ calls'[w + 1].a = "Processed"
                       /\ calls'[w + 1].b = <<2, FALSE, 2>>
                       /\ calls'[w + 1].ok => SortedDescending(processed_sheet')
           /\ \A k \in Sorts(calls') : k - 1 \in ProcessedWrites(calls') ]_vars

C23_Witness ==
    /\ pc = "upsert_done"
    /\ ~exc
    /\ Len(calls) = 3
    /\ calls[2].op = "write_values" /\ calls[2].ok
    /\ calls[3].op = "sort_sheet" /\ calls[3].ok
    /\ Len(processed_sheet) = 2
    /\ processed_sheet[1][1] = filename

----------------------------------------------------------------------------
(* SpecRerun: two consecutive runs of main over one file whose content     *)
(* does not change, every call to the external services succeeding         *)

Ran(sheet, evs, new, last, uris, matched, unf, id) ==
    [sheet |-> sheet, calls |-> evs, new |-> new, last |-> last, uris |-> uris,
     matched |-> matched, unf |-> unf, id |-> id]

\* the search_track calls of lines 355-356, one per new record
SearchCalls(new, found) ==
    [i \in 1..Len(new) |->
        Ev("search_track", new[i][1], new[i][2], TRUE)]

\* main 416 and process_file 328-392 for one file, no call failing:
\* the cursor is read from the Processed tab, the new records are looked up
\* (found[i]: the i-th new record has a match), the playlists are updated
\* and the results logged
process_file(sheet, fname, list, found, existing, created) ==
    LET last == load_processed_map(sheet)[fname]
        new == process_new_songs(list, last)
        hit == FoundOf(new, found)
        uris == [i \in 1..Len(hit) |-> Catalog(hit[i][1], hit[i][2])]
        matched == [i \in 1..Len(hit) |-> <<hit[i][1], hit[i][2]>>]
        unf == UnfoundOf(new, found)
        date == extract_date_from_filename(fname)
        opened == <<Ev("download_file", fname, None, TRUE),
                    Ev("parse_m3u", fname, None, TRUE)>>
        closed == <<Ev("os.remove", fname, None, TRUE)>>
        pl == create_spotify_playlist_for_file(date, uris, existing, created, "none")
        logged == sync_log_to_sheets(sheet, date, matched, uris, unf, fname,
                                     new, last, pl.id, {}, "none")
    IN IF new = <<>>
       THEN Ran(sheet, opened \o closed, new, last, <<>>, <<>>, <<>>, None)
       ELSE Ran(logged.sheet,
                opened \o SearchCalls(new, found)
                   \o update_spotify_radio_playlist(SPOTIFY_PLAYLIST_ID, uris, "none")
                   \o pl.calls \o logged.calls \o closed,
                new, last, uris, matched, unf, pl.id)

InitRerun ==
    /\ pc = "first_run"
    /\ processed_sheet \in MainSheets
    /\ filename \in Filenames
    /\ songs \in SeqsUpTo(MainTracks, MaxSongs)
    /\ impl = "sync"
    /\ last_extvdj_line = None
    /\ new_songs = <<>>
    /\ processed_map = [f \in Filenames |-> None]
    /\ found_uris = <<>>
    /\ matched_songs = <<>>
    /\ unfound = <<>>
    /\ playlist_id = None
    /\ exc = FALSE
    /\ calls = <<>>
    /\ faults = 0
    /\ m3u_files = <<>>
    /\ steps = 0
    /\ folder_id = "folder_id"
    /\ tabs = {}
    /\ retries = 0

\* one run of main on the file: pc goes from first_run to second_run and
\* from second_run to rerun_done
RunOnFile ==
    /\ pc \in { "first_run", "second_run" }
    /\ \E found \in [1..MaxSongs -> BOOLEAN], existing \in { None, "pl_old" },
          created \in { None, "pl_new" } :
          LET r == process_file(processed_sheet, filename, songs, found,
                                existing, created)
          IN /\ processed_map' = load_processed_map(processed_sheet)
             /\ processed_sheet' = r.sheet
             /\ calls' = r.calls
             /\ new_songs' = r.new
             /\ last_extvdj_line' = r.last
             /\ found_uris' = r.uris
             /\ matched_songs' = r.matched
             /\ unfound' = r.unf
             /\ playlist_id' = r.id
    /\ pc' = IF pc = "first_run" THEN "second_run" ELSE "rerun_done"
    /\ steps' = steps + 1
    /\ UNCHANGED <<songs, filename, exc, faults, impl, folder_id, tabs,
                   retries, m3u_files>>

NextRerun == RunOnFile

SpecRerun == InitRerun /\ [][NextRerun]_vars

\* C24: when a run of main has processed a file to completion and the file
\* is unchanged, the next run finds no new record for it: it looks no track
\* up, adds nothing to the rolling or the per-period playlist and appends
\* no Songs Added or Songs Not Found row, whatever the file holds and
\* however the first run's lookups ended.
C24_RerunFindsNothingNew ==
    pc = "rerun_done"
    => /\ new_songs = <<>>
       /\ Lookups(calls) = {}
       /\ PlaylistAdds(calls) = {}
       /\ AppendsTo(calls, "Songs Added") = {}
       /\ AppendsTo(calls, "Songs Not Found") = {}

----------------------------------------------------------------------------
(* Claims about a file with no new record                                  *)

\* process_file is past its comparison with the stored cursor
PastDiff ==
    pc \in { "pf_search", "pf_radio", "pf_playlist", "pf_log_info",
             "pf_log_added", "pf_log_unfound", "pf_log_processed",
             "pf_finally", "pf_exit" }
        /\ \E k \in CallsOf(calls, "parse_m3u") : calls[k].ok

\* the calls process_file makes for every file: download, parse, clean-up
QuietCalls(evs) ==
    \A k \in 1..Len(evs) :
        evs[k].op \in { "download_file", "parse_m3u", "os.remove" }

\* the stored cursor is the marker of the last record of the parsed file
CursorIsLastMarker ==
    songs /= <<>> /\ songs[Len(songs)][3] = processed_map[filename]

\* ... and of no earlier record
CursorIsOnlyLastMarker ==
    /\ CursorIsLastMarker
    /\ Truthy(processed_map[filename])
    /\ \A i \in 1..(Len(songs) - 1) : songs[i][3] /= processed_map[filename]

\* C25 as stated: when the parsed file is empty or its stored cursor is the
\* marker of its last record, process_file looks no track up, modifies no
\* playlist and writes nothing to the spreadsheet.
C25_Original ==
    [][ ( PastDiff' /\ (songs' = <<>> \/ CursorIsLastMarker') )
        => /\ QuietCalls(calls')
           /\ processed_sheet' = processed_sheet ]_vars

\* C25 amended: the same, for a parsed file that is empty or whose stored
\* cursor is the marker of its last record and of no earlier record.
C25_NoNewRecordsNoEffect ==
    [][ ( PastDiff' /\ (songs' = <<>> \/ CursorIsOnlyLastMarker') )
        => /\ QuietCalls(calls')
           /\ new_songs' = <<>>
           /\ processed_sheet' = processed_sheet ]_vars

C25_Witness ==
    /\ pc = "pf_exit"
    /\ ~exc
    /\ Len(songs) = 2
    /\ CursorIsOnlyLastMarker
    /\ Len(calls) = 3
    /\ QuietCalls(calls)

============================================================================
